---- MODULE Spec2Model ----
(***************************************************************************)
(* Model of merge_ass_srt.py: the SRT parser, the SRT -> ASS time          *)
(* conversion, the line scan that merges SRT entries into an ASS document, *)
(* the output-name derivation and the batch loop of main().                *)
(*                                                                         *)
(* A Python str is modelled as a sequence of tokens.  A token is one       *)
(* character where the code looks at characters (digits, ":", ",", ".",    *)
(* "[", " ", "\n") and otherwise a run of characters that no operation of  *)
(* the code splits (a word such as "Hello").                               *)
(***************************************************************************)
EXTENDS Integers, Sequences, FiniteSets, TLC

VARIABLES
    pc,             \* where the program stands
    arg,            \* the argument(s) of the function under study / the last call
    result,         \* what that call returned or raised
    disk,           \* main(): the files under the scanned root, by path
    readonly,       \* main(): the paths that cannot be opened for writing
    ass_files,      \* main(): the primaries still to process
    ass_file,       \* main(): the path of the primary being processed
    srt_files,      \* main(): the paths of its companions still to merge
    total_merged,
    total_skipped,
    outputs,        \* the paths this run has outputs, in order
    runs,           \* the number of the run of main() under way
    previous        \* what the run before this one left

vars == <<pc, arg, result, disk, readonly, ass_files, ass_file, srt_files,
          total_merged, total_skipped, outputs, runs, previous>>

\* The variables of main(), which the specifications of single functions
\* leave alone.
mainVars == <<disk, readonly, ass_files, ass_file, srt_files,
              total_merged, total_skipped, outputs, runs, previous>>

(***************************************************************************)
(* str methods                                                             *)
(***************************************************************************)

\* The characters str.strip() removes (those the modelled inputs contain).
Whitespace == {" ", "\n"}

RECURSIVE LStrip(_)
LStrip(s) ==
    IF s # <<>> /\ Head(s) \in Whitespace THEN LStrip(Tail(s)) ELSE s

RECURSIVE RStrip(_)
RStrip(s) ==
    IF s # <<>> /\ s[Len(s)] \in Whitespace
    THEN RStrip(SubSeq(s, 1, Len(s) - 1))
    ELSE s

\* s.strip()
Strip(s) == RStrip(LStrip(s))

\* s.startswith(p)
StartsWith(s, p) == Len(s) >= Len(p) /\ SubSeq(s, 1, Len(p)) = p

\* s.find(sub) + 1: the first index where sub occurs in s, 0 when none.
Find(s, sub) ==
    LET at == {i \in 1..(Len(s) - Len(sub) + 1) :
                   s[i] = sub[1] /\ SubSeq(s, i, i + Len(sub) - 1) = sub}
    IN  IF at = {} THEN 0 ELSE CHOOSE i \in at : \A j \in at : i <= j

\* sub in s
Contains(s, sub) == Find(s, sub) # 0

\* s.split(sep), sep non-empty: scanned left to right, matches do not overlap.
RECURSIVE Split(_, _)
Split(s, sep) ==
    LET i == Find(s, sep)
    IN  IF i = 0 THEN <<s>>
        ELSE <<SubSeq(s, 1, i - 1)>>
                \o Split(SubSeq(s, i + Len(sep), Len(s)), sep)

\* sep.join(parts)
RECURSIVE Join(_, _)
Join(parts, sep) ==
    IF parts = <<>> THEN <<>>
    ELSE IF Len(parts) = 1 THEN parts[1]
         ELSE parts[1] \o sep \o Join(Tail(parts), sep)

\* s.replace(old, new), old non-empty: every non-overlapping occurrence.
RECURSIVE Replace(_, _, _)
Replace(s, old, new) ==
    IF s = <<>> THEN <<>>
    ELSE IF StartsWith(s, old)
         THEN new \o Replace(SubSeq(s, Len(old) + 1, Len(s)), old, new)
         ELSE <<Head(s)>> \o Replace(Tail(s), old, new)

(***************************************************************************)
(* Numbers and their decimal text                                          *)
(***************************************************************************)

Digits == <<"0", "1", "2", "3", "4", "5", "6", "7", "8", "9">>

IsDigit(c) == \E d \in 1..Len(Digits) : Digits[d] = c

DigitVal(c) == (CHOOSE d \in 1..Len(Digits) : Digits[d] = c) - 1

\* int(s) for a string of decimal digits
RECURSIVE IntOf(_)
IntOf(s) ==
    IF s = <<>> THEN 0
    ELSE IntOf(SubSeq(s, 1, Len(s) - 1)) * Len(Digits) + DigitVal(s[Len(s)])

\* str(n), n >= 0
RECURSIVE StrOf(_)
StrOf(n) ==
    IF n < Len(Digits) THEN <<Digits[n + 1]>>
    ELSE StrOf(n \div Len(Digits)) \o <<Digits[(n % Len(Digits)) + 1]>>

\* format(n, "0<w>d"): zero-padded on the left to at least w characters
RECURSIVE ZeroPad(_, _)
ZeroPad(s, w) == IF Len(s) >= w THEN s ELSE ZeroPad(<<"0">> \o s, w)

(***************************************************************************)
(* parse_srt_time                                                          *)
(***************************************************************************)

\* float("SS.mmm") is the double nearest to SS.mmm.  The model keeps the value
\* in milliseconds; FloatBinade and FloatAbove say where the double lies.

\* 2^k mod 25
RECURSIVE Pow2Mod25(_)
Pow2Mod25(k) == IF k = 0 THEN 1 ELSE (2 * Pow2Mod25(k - 1)) % 25

\* The binary exponent e of ms/1000 (2^e <= ms/1000 < 2^(e+1)), for ms > 0.
RECURSIVE BinadeUp(_, _)
BinadeUp(ms, unit) == IF 2 * unit <= ms THEN 1 + BinadeUp(ms, 2 * unit) ELSE 0

RECURSIVE BinadeDown(_)
BinadeDown(ms) == IF ms >= 1000 THEN 0 ELSE BinadeDown(2 * ms) - 1

FloatBinade(ms) == IF ms >= 1000 THEN BinadeUp(ms, 1000) ELSE BinadeDown(ms)

\* For ms ending in 5 (a decimal tie between two hundredths): ms/1000 =
\* odd/200 with odd = ms/5.  The 53-bit significand is odd * 2^(49-e) / 25
\* rounded to an integer; the double is exact when 25 divides odd and lies
\* above the decimal value when the remainder mod 25 is 13 or more.
FloatExact(ms) == (ms \div 5) % 25 = 0

FloatAbove(ms) ==
    (((ms \div 5) % 25) * Pow2Mod25(49 - FloatBinade(ms))) % 25 >= 13

\* The hundredths "%.2f" prints: the double's exact value rounded to two
\* decimals, an exact tie going to the even hundredth.
RoundCentis(ms) ==
    LET q == ms \div 10
        r == ms % 10
    IN  IF r < 5 THEN q
        ELSE IF r > 5 THEN q + 1
        ELSE IF FloatExact(ms) THEN (IF q % 2 = 0 THEN q ELSE q + 1)
        ELSE IF FloatAbove(ms) THEN q + 1
        ELSE q

\* float(s) for s = digits "." three digits, in milliseconds
FloatMillis(s) ==
    LET p == Split(s, <<".">>)
    IN  IntOf(p[1]) * 1000 + IntOf(p[2])

\* f"{seconds:06.2f}": two decimals, zero-padded to a total width of 6
Format06_2f(ms) ==
    LET c == RoundCentis(ms)
    IN  ZeroPad(StrOf(c \div 100) \o <<".">> \o ZeroPad(StrOf(c % 100), 2), 6)

parse_srt_time(time_str) ==
    LET replaced == Replace(time_str, <<",">>, <<".">>)
        parts    == Split(replaced, <<":">>)
        hours    == IntOf(parts[1])
        minutes  == IntOf(parts[2])
        seconds  == FloatMillis(parts[3])
    IN  StrOf(hours) \o <<":">> \o ZeroPad(StrOf(minutes), 2) \o <<":">>
            \o Format06_2f(seconds)

\* The text HH:MM:SS,mmm that the parser's pattern (\d{2}:\d{2}:\d{2},\d{3})
\* accepts, for given field values.
SrtTimeText(h, m, s, ms) ==
    ZeroPad(StrOf(h), 2) \o <<":">> \o ZeroPad(StrOf(m), 2) \o <<":">>
        \o ZeroPad(StrOf(s), 2) \o <<",">> \o ZeroPad(StrOf(ms), 3)

(***************************************************************************)
(* Files.  A file is [enc, text]: enc says what open()/read() does with    *)
(* its bytes, text is what a successful read returns.                      *)
(*   "utf8"       decodes as UTF-8                                         *)
(*   "gbk"        UnicodeDecodeError as UTF-8, decodes as GBK              *)
(*   "binary"     UnicodeDecodeError as UTF-8 and as GBK                   *)
(*   "unreadable" open() raises OSError (missing, a directory, no          *)
(*                permission)                                              *)
(* A call's outcome is [exc, val]: exc = "none" and the returned value, or *)
(* the exception that leaves the function.                                 *)
(***************************************************************************)

Encodings == {"utf8", "gbk", "binary", "unreadable"}

File(enc, text) == [enc |-> enc, text |-> text]

Return(v) == [exc |-> "none", val |-> v]

Raise(e) == [exc |-> e, val |-> <<>>]

\* with open(path, 'r', encoding=encoding) as f: f.read()
ReadText(file, encoding) ==
    IF file.enc = "unreadable" THEN Raise("OSError")
    ELSE IF file.enc = "binary" \/ (file.enc = "gbk" /\ encoding = "utf-8")
         THEN Raise("UnicodeDecodeError")
         ELSE Return(file.text)

(***************************************************************************)
(* parse_srt_file                                                          *)
(***************************************************************************)

\* \d{2}:\d{2}:\d{2},\d{3} at s[i..i+11]
IsSrtTimestampAt(s, i) ==
    /\ Len(s) >= i + 11
    /\ \A k \in {0, 1, 3, 4, 6, 7, 9, 10, 11} : IsDigit(s[i + k])
    /\ s[i + 2] = ":" /\ s[i + 5] = ":" /\ s[i + 8] = ","

\* TimeMatch with [,.] where the pattern has a comma: a decimal point passes
\* too.
TimeMatch_AnySeparator(time_line) ==
    /\ Len(time_line) >= 29
    /\ \A i \in {1, 18} :
          /\ \A k \in {0, 1, 3, 4, 6, 7, 9, 10, 11} : IsDigit(time_line[i + k])
          /\ time_line[i + 2] = ":" /\ time_line[i + 5] = ":"
          /\ time_line[i + 8] \in {",", "."}
    /\ SubSeq(time_line, 13, 17) = <<" ", "-", "-", ">", " ">>

\* re.match(r'(\d{2}:\d{2}:\d{2},\d{3}) --> (\d{2}:\d{2}:\d{2},\d{3})', line):
\* the pattern is anchored at the start of the line only.
TimeMatch(time_line) ==
    /\ IsSrtTimestampAt(time_line, 1)
    /\ Len(time_line) >= 17
    /\ SubSeq(time_line, 13, 17) = <<" ", "-", "-", ">", " ">>
    /\ IsSrtTimestampAt(time_line, 18)

TimeGroup1(time_line) == SubSeq(time_line, 1, 12)

TimeGroup2(time_line) == SubSeq(time_line, 18, 29)

\* BlockEntries with `len(lines) > 3` for `len(lines) >= 3`.
BlockEntries_MoreThanThree(block) ==
    LET lines == Split(Strip(block), <<"\n">>)
    IN  IF Len(lines) > 3 /\ TimeMatch(lines[2])
        THEN << [index |-> lines[1],
                 start |-> parse_srt_time(TimeGroup1(lines[2])),
                 end   |-> parse_srt_time(TimeGroup2(lines[2])),
                 text  |-> Join(SubSeq(lines, 3, Len(lines)), <<"\n">>)] >>
        ELSE <<>>

\* The body of `for block in blocks`: the entries one block appends.
BlockEntries(block) ==
    LET lines == Split(Strip(block), <<"\n">>)
    IN  IF Len(lines) >= 3 /\ TimeMatch(lines[2])
        THEN << [index |-> lines[1],
                 start |-> parse_srt_time(TimeGroup1(lines[2])),
                 end   |-> parse_srt_time(TimeGroup2(lines[2])),
                 text  |-> Join(SubSeq(lines, 3, Len(lines)), <<"\n">>)] >>
        ELSE <<>>

RECURSIVE ParseBlocks(_)
ParseBlocks(blocks) ==
    IF blocks = <<>> THEN <<>>
    ELSE BlockEntries(Head(blocks)) \o ParseBlocks(Tail(blocks))

\* Lines 44-70: the parse of a decoded content.
ParseSrtContent(content) ==
    ParseBlocks(Split(Strip(content), <<"\n", "\n">>))

\* parse_srt_file(srt_path), srt_file being the file at srt_path: UTF-8, then
\* GBK; when neither decodes, the empty list (line 42).  Only
\* UnicodeDecodeError is caught.
parse_srt_file(srt_file) ==
    LET utf8 == ReadText(srt_file, "utf-8")
        gbk  == ReadText(srt_file, "gbk")
    IN  IF utf8.exc = "none" THEN Return(ParseSrtContent(utf8.val))
        ELSE IF utf8.exc # "UnicodeDecodeError" THEN utf8
        ELSE IF gbk.exc = "none" THEN Return(ParseSrtContent(gbk.val))
        ELSE IF gbk.exc # "UnicodeDecodeError" THEN gbk
        ELSE Return(<<>>)

(***************************************************************************)
(* read_ass_file and merge_ass_srt                                         *)
(***************************************************************************)

\* read_ass_file(ass_path): UTF-8, then GBK; when neither decodes, "" (line
\* 85).  Only UnicodeDecodeError is caught.
read_ass_file(file) ==
    LET utf8 == ReadText(file, "utf-8")
        gbk  == ReadText(file, "gbk")
    IN  IF utf8.exc # "UnicodeDecodeError" THEN utf8
        ELSE IF gbk.exc # "UnicodeDecodeError" THEN gbk
        ELSE Return(<<>>)

StylesHeader == <<"[", "V4+ Styles]">>

EventsHeader == <<"[", "Events]">>

\* Line 122 (the font name, not ASCII in the source, written as SimHei)
subtitle_style ==
    <<"Style: Subtitle,SimHei,42,&H00FFFFFF,&H00FFFFFF,&H00000000,&H80000000,1,0,0,0,100,100,0.00,0.00,1,2.0,0,2,20,20,90,1">>

\* Lines 130 and 141
clean_text(text) ==
    Replace(Replace(Replace(text, <<"\n">>, <<"\\", "N">>),
                    <<"{">>, <<"\\", "{">>),
            <<"}">>, <<"\\", "}">>)

\* Lines 131 and 142
dialogue_line(sub) ==
    <<"Dialogue: 0,">> \o sub.start \o <<",">> \o sub.end
        \o <<",Subtitle,,0,0,0,,">> \o clean_text(sub.text)

\* The lines the loops at 128-132 and 140-143 append, one per entry.
DialogueLines(srt_subtitles) ==
    [k \in 1..Len(srt_subtitles) |-> dialogue_line(srt_subtitles[k])]

\* ScanLine with line 134 left out: the header that ends the Events section
\* is not copied.
ScanLine_HeaderNotCopied(line, style_section_found, events_section_found, srt_subtitles) ==
    IF Strip(line) = StylesHeader
    THEN [out |-> <<line>>, style |-> TRUE, events |-> events_section_found]
    ELSE IF Strip(line) = EventsHeader
    THEN [out |-> (IF style_section_found THEN <<subtitle_style>> ELSE <<>>)
                      \o <<line>>,
          style |-> style_section_found, events |-> TRUE]
    ELSE IF StartsWith(Strip(line), <<"[">>) /\ events_section_found
    THEN [out |-> DialogueLines(srt_subtitles),
          style |-> style_section_found, events |-> events_section_found]
    ELSE [out |-> <<line>>,
          style |-> style_section_found, events |-> events_section_found]

\* One iteration of `for line in lines` (114-136): the lines it appends to
\* output_lines and the two flags after it.
ScanLine(line, style_section_found, events_section_found, srt_subtitles) ==
    IF Strip(line) = StylesHeader
    THEN [out |-> <<line>>, style |-> TRUE, events |-> events_section_found]
    ELSE IF Strip(line) = EventsHeader
    THEN [out |-> (IF style_section_found THEN <<subtitle_style>> ELSE <<>>)
                      \o <<line>>,
          style |-> style_section_found, events |-> TRUE]
    ELSE IF StartsWith(Strip(line), <<"[">>) /\ events_section_found
    THEN [out |-> DialogueLines(srt_subtitles) \o <<line>>,
          style |-> style_section_found, events |-> events_section_found]
    ELSE [out |-> <<line>>,
          style |-> style_section_found, events |-> events_section_found]

\* The loop 113-136 from line i on: [out, events], the lines appended and
\* events_section_found when the loop ends.
RECURSIVE ScanLines(_, _, _, _, _)
ScanLines(lines, i, style_section_found, events_section_found, srt_subtitles) ==
    IF i > Len(lines)
    THEN [out |-> <<>>, events |-> events_section_found]
    ELSE LET step == ScanLine(lines[i], style_section_found,
                              events_section_found, srt_subtitles)
             rest == ScanLines(lines, i + 1, step.style, step.events,
                               srt_subtitles)
         IN  [out |-> step.out \o rest.out, events |-> rest.events]

\* lines.index(x) + 1: the first line equal to x, 0 for ValueError.
Index(lines, x) ==
    IF \E i \in 1..Len(lines) : lines[i] = x
    THEN CHOOSE i \in 1..Len(lines) :
            lines[i] = x /\ \A j \in 1..(i - 1) : lines[j] # x
    ELSE 0

\* The any(...) of line 139 over lines[at+1:], at = lines.index('[Events]')
\* counted from 1.
AnyOtherHeaderAfter(lines, at) ==
    \E k \in (at + 1)..Len(lines) :
        StartsWith(Strip(lines[k]), <<"[">>) /\ Strip(lines[k]) # EventsHeader

\* What a merge call leaves: the exception that left it or the value it
\* returned, whether output_path was written, and the text written.
MergeOutcome(exc, val, written, output) ==
    [exc |-> exc, val |-> val, written |-> written, output |-> output]

\* merge_ass_srt with lines 99-101 left out: a companion without entries is
\* merged all the same.
merge_ass_srt_EmptyEntriesMerged(ass, srt_file, writable) ==
    LET ass_content   == read_ass_file(ass)
        srt_subtitles == parse_srt_file(srt_file)
        lines         == Split(ass_content.val, <<"\n">>)
        scan          == ScanLines(lines, 1, FALSE, FALSE, srt_subtitles.val)
        at            == Index(lines, EventsHeader)
        output_lines  ==
            IF scan.events /\ ~AnyOtherHeaderAfter(lines, at)
            THEN scan.out \o DialogueLines(srt_subtitles.val)
            ELSE scan.out
    IN  IF ass_content.exc # "none"
        THEN MergeOutcome(ass_content.exc, FALSE, FALSE, <<>>)
        ELSE IF ass_content.val = <<>>
        THEN MergeOutcome("none", FALSE, FALSE, <<>>)
        ELSE IF srt_subtitles.exc # "none"
        THEN MergeOutcome(srt_subtitles.exc, FALSE, FALSE, <<>>)
        ELSE IF scan.events /\ at = 0
        THEN MergeOutcome("ValueError", FALSE, FALSE, <<>>)
        ELSE IF ~writable
        THEN MergeOutcome("none", FALSE, FALSE, <<>>)
        ELSE MergeOutcome("none", TRUE, TRUE, Join(output_lines, <<"\n">>))

\* merge_ass_srt(ass_path, srt_path, output_path): the files at the first two
\* paths, and whether output_path can be opened for writing.
merge_ass_srt(ass, srt_file, writable) ==
    LET ass_content   == read_ass_file(ass)
        srt_subtitles == parse_srt_file(srt_file)
        lines         == Split(ass_content.val, <<"\n">>)
        scan          == ScanLines(lines, 1, FALSE, FALSE, srt_subtitles.val)
        at            == Index(lines, EventsHeader)
        output_lines  ==
            IF scan.events /\ ~AnyOtherHeaderAfter(lines, at)
            THEN scan.out \o DialogueLines(srt_subtitles.val)
            ELSE scan.out
    IN  IF ass_content.exc # "none"
        THEN MergeOutcome(ass_content.exc, FALSE, FALSE, <<>>)
        ELSE IF ass_content.val = <<>>
        THEN MergeOutcome("none", FALSE, FALSE, <<>>)
        ELSE IF srt_subtitles.exc # "none"
        THEN MergeOutcome(srt_subtitles.exc, FALSE, FALSE, <<>>)
        ELSE IF srt_subtitles.val = <<>>
        THEN MergeOutcome("none", FALSE, FALSE, <<>>)
        ELSE IF scan.events /\ at = 0
        THEN MergeOutcome("ValueError", FALSE, FALSE, <<>>)
        ELSE IF ~writable
        THEN MergeOutcome("none", FALSE, FALSE, <<>>)
        ELSE MergeOutcome("none", TRUE, TRUE, Join(output_lines, <<"\n">>))

(***************************************************************************)
(* generate_output_filename                                                *)
(***************************************************************************)

\* The index of the last "/" of a path, 0 when it has none.
LastSep(path) ==
    IF \E i \in 1..Len(path) : path[i] = "/"
    THEN CHOOSE i \in 1..Len(path) :
            path[i] = "/" /\ \A j \in (i + 1)..Len(path) : path[j] # "/"
    ELSE 0

\* os.path.basename(path)
Basename(path) == SubSeq(path, LastSep(path) + 1, Len(path))

\* os.path.dirname(path), for a path with no separator or one that is not
\* the root's
Dirname(path) == SubSeq(path, 1, LastSep(path) - 1)

\* os.path.join(dir, name)
PathJoin(dir, name) == IF dir = <<>> THEN name ELSE dir \o <<"/">> \o name

DanmakuAss == <<".", "danmaku", ".", "ass">>

DotSrt == <<".", "srt">>

MergedAss == <<".", "merged", ".", "ass">>

generate_output_filename(srt_file_path, ass_file_path) ==
    LET srt_basename == Basename(srt_file_path)
        ass_basename == Basename(ass_file_path)
        ass_base     == Replace(ass_basename, DanmakuAss, <<>>)
        srt_base     == Replace(srt_basename, DotSrt, <<>>)
        replaced     == Replace(srt_base, ass_base, <<>>)
        lang_part    == IF StartsWith(replaced, <<".">>)
                        THEN Tail(replaced) ELSE replaced
        output_filename ==
            IF Contains(srt_base, ass_base)
            THEN ass_base \o <<".">> \o lang_part \o MergedAss
            ELSE ass_base \o MergedAss
    IN  PathJoin(Dirname(ass_file_path), output_filename)

(***************************************************************************)
(* main                                                                    *)
(***************************************************************************)

\* The code point of the first character of a token: what sorted() compares
\* where two paths first differ.  (In the paths of this model a token that
\* differs from the other path's token differs in its first character.)
CodePoint(token) ==
    CASE token = "." -> 46
      [] token = "/" -> 47
      [] token \in {"a", "ass"} -> 97
      [] token \in {"d", "danmaku"} -> 100
      [] token = "merged" -> 109
      [] token \in {"s", "srt"} -> 115
      [] token = "z" -> 122

\* str.__lt__
RECURSIVE Less(_, _)
Less(a, b) ==
    IF a = <<>> THEN b # <<>>
    ELSE IF b = <<>> THEN FALSE
    ELSE IF a[1] = b[1] THEN Less(Tail(a), Tail(b))
    ELSE CodePoint(a[1]) < CodePoint(b[1])

\* sorted(list(set(paths)))
RECURSIVE Sorted(_)
Sorted(paths) ==
    IF paths = {} THEN <<>>
    ELSE LET first == CHOOSE x \in paths : \A y \in paths \ {x} : Less(x, y)
         IN  <<first>> \o Sorted(paths \ {first})

EndsWith(s, p) ==
    Len(s) >= Len(p) /\ SubSeq(s, Len(s) - Len(p) + 1, Len(s)) = p

\* fnmatch of a file name against <prefix>*<suffix>; glob leaves out the
\* names that start with a dot unless the pattern does.
GlobStar(name, prefix, suffix) ==
    /\ Len(name) >= Len(prefix) + Len(suffix)
    /\ StartsWith(name, prefix)
    /\ EndsWith(name, suffix)
    /\ (prefix = <<>> => name[1] # ".")

\* scan_directory with '*.ass' for '*.danmaku.ass'.
scan_directory_AnyAss(tree) ==
    {path \in DOMAIN tree : GlobStar(Basename(path), <<>>, <<".", "ass">>)}

\* scan_directory (lines 177-189): the paths under the root that match
\* **/*.danmaku.ass.  glob returns them in the order the file system lists
\* them, so this is their set.
scan_directory(tree) ==
    {path \in DOMAIN tree : GlobStar(Basename(path), <<>>, DanmakuAss)}

\* find_matching_srt_files (lines 156-174): the paths that match
\* <base_name>.*.srt, sorted.
find_matching_srt_files(tree, ass_file_path) ==
    LET base_name == Replace(ass_file_path, DanmakuAss, <<>>)
    IN  Sorted({path \in DOMAIN tree :
                    /\ Dirname(path) = Dirname(base_name)
                    /\ GlobStar(Basename(path),
                                Basename(base_name) \o <<".">>, DotSrt)})

\* The orders in which a set of paths can be listed.
Orders(paths) ==
    {order \in [1..Cardinality(paths) -> paths] :
        \A i, j \in 1..Cardinality(paths) : order[i] = order[j] => i = j}

\* open(path, 'w') and f.write(text): the tree with the file at path
\* created or replaced.
WriteFile(tree, path, file) ==
    [q \in DOMAIN tree \cup {path} |-> IF q = path THEN file ELSE tree[q]]

\* No run before this one.
NoRun == [pc |-> "none", total_merged |-> 0, total_skipped |-> 0,
          outputs |-> <<>>, disk |-> <<>>]

\* Lines 229-236: scan_directory lists the primaries; with none, main
\* returns at once.
ScanDirectory ==
    /\ pc = "scan"
    /\ \E order \in Orders(scan_directory(disk)) :
          /\ ass_files' = order
          /\ pc' = IF order = <<>> THEN "done" ELSE "loop"
    /\ UNCHANGED <<arg, result, disk, readonly, ass_file, srt_files,
                   total_merged, total_skipped, outputs, runs, previous>>

\* NextAssFile with line 246 left out: a primary without companion is not
\* counted.
NextAssFile_SkipNotCounted ==
    /\ pc = "loop"
    /\ ass_files # <<>>
    /\ ass_file' = Head(ass_files)
    /\ ass_files' = Tail(ass_files)
    /\ srt_files' = find_matching_srt_files(disk, Head(ass_files))
    /\ pc' = IF srt_files' = <<>> THEN "loop" ELSE "merge"
    /\ UNCHANGED <<arg, result, disk, readonly, total_merged, total_skipped,
                   outputs, runs, previous>>

\* Lines 239-252: the next primary and its companions, which
\* find_matching_srt_files returns sorted; with none the primary is skipped.
NextAssFile ==
    /\ pc = "loop"
    /\ ass_files # <<>>
    /\ ass_file' = Head(ass_files)
    /\ ass_files' = Tail(ass_files)
    /\ srt_files' = find_matching_srt_files(disk, Head(ass_files))
    /\ IF srt_files' = <<>>
       THEN total_skipped' = total_skipped + 1 /\ pc' = "loop"
       ELSE total_skipped' = total_skipped /\ pc' = "merge"
    /\ UNCHANGED <<arg, result, disk, readonly, total_merged, outputs, runs,
                   previous>>

\* The call at line 264 as merge_ass_srt sees it: the two files read, the
\* output path and whether it can be opened for writing.
MergeCall(ass_file_path, srt_file_path, output_file) ==
    [ass |-> disk[ass_file_path], srt |-> disk[srt_file_path],
     output_path |-> output_file, writable |-> output_file \notin readonly]

\* Lines 255-267: one pairing.  No handler surrounds the call at line 264:
\* an exception that leaves merge_ass_srt leaves main.  The output is
\* written (lines 146-149) when its path can be opened for writing.
MergePair ==
    /\ pc = "merge"
    /\ arg' = MergeCall(ass_file, Head(srt_files),
                        generate_output_filename(Head(srt_files), ass_file))
    /\ result' = merge_ass_srt(arg'.ass, arg'.srt, arg'.writable)
    /\ disk' = IF result'.written
               THEN WriteFile(disk, arg'.output_path,
                              File("utf8", result'.output))
               ELSE disk
    /\ outputs' = IF result'.written THEN Append(outputs, arg'.output_path)
                  ELSE outputs
    /\ IF result'.exc # "none"
       THEN /\ pc' = "crashed"
            /\ UNCHANGED <<srt_files, total_merged, total_skipped>>
       ELSE /\ srt_files' = Tail(srt_files)
            /\ pc' = IF Tail(srt_files) = <<>> THEN "loop" ELSE "merge"
            /\ total_merged' = total_merged + (IF result'.val THEN 1 ELSE 0)
            /\ total_skipped' = total_skipped + (IF result'.val THEN 0 ELSE 1)
    /\ UNCHANGED <<readonly, ass_files, ass_file, runs, previous>>

\* Lines 269-273: the tally.
Finish ==
    /\ pc = "loop"
    /\ ass_files = <<>>
    /\ pc' = "done"
    /\ UNCHANGED <<arg, result, mainVars>>

\* The number of runs of the script on one tree.
MaxRuns == 2

\* The script is started again on the tree the run before left (line 276).
RunAgain ==
    /\ pc \in {"done", "crashed"}
    /\ runs < MaxRuns
    /\ previous' = [pc |-> pc, total_merged |-> total_merged,
                    total_skipped |-> total_skipped, outputs |-> outputs,
                    disk |-> disk]
    /\ runs' = runs + 1
    /\ pc' = "scan"
    /\ ass_files' = <<>> /\ ass_file' = <<>> /\ srt_files' = <<>>
    /\ total_merged' = 0 /\ total_skipped' = 0
    /\ outputs' = <<>>
    /\ UNCHANGED <<arg, result, disk, readonly>>

Next == ScanDirectory \/ NextAssFile \/ MergePair \/ Finish \/ RunAgain

(***************************************************************************)
(* Inputs of the parser: contents made of at most MaxSrtLines lines, each  *)
(* an empty line, a word, a time-range line or a malformed time-range      *)
(* line; any of the last three can stand as index label or as text.  No    *)
(* line carries surrounding whitespace.                                    *)
(***************************************************************************)

MaxSrtLines == 7

TimeRangeLine ==
    SrtTimeText(0, 0, 7, 560) \o <<" ", "-", "-", ">", " ">>
        \o SrtTimeText(0, 0, 8, 300)

\* A decimal point where the pattern wants a comma.
MalformedTimeLine ==
    Replace(SrtTimeText(0, 0, 7, 560), <<",">>, <<".">>)
        \o <<" ", "-", "-", ">", " ">> \o SrtTimeText(0, 0, 8, 300)

SrtLineKinds == {<<>>, <<"Hello">>, TimeRangeLine, MalformedTimeLine}

SeqsUpTo(S, n) == UNION {[1..k -> S] : k \in 0..n}

SrtContents == {Join(ls, <<"\n">>) : ls \in SeqsUpTo(SrtLineKinds, MaxSrtLines)}

(***************************************************************************)
(* Specification of parse_srt_time applied to one timestamp                *)
(***************************************************************************)

SrtHours == {0, 1, 12}
SrtMinutes == {0, 3, 59}
SrtSeconds == {0, 7, 59}
SrtMillis == 0..999

\* No file at hand.
NoFile == [enc |-> "none", text |-> <<>>]

\* main() is not running.
MainIdle ==
    /\ disk = <<>> /\ readonly = {}
    /\ ass_files = <<>> /\ ass_file = <<>> /\ srt_files = <<>>
    /\ total_merged = 0 /\ total_skipped = 0
    /\ outputs = <<>> /\ runs = 0 /\ previous = NoRun

InitTime ==
    /\ pc = "time"
    /\ arg \in {SrtTimeText(h, m, s, ms) :
                    h \in SrtHours, m \in SrtMinutes, s \in SrtSeconds,
                    ms \in SrtMillis}
    /\ result = <<>>
    /\ MainIdle

ParseSrtTime ==
    /\ pc = "time"
    /\ result' = parse_srt_time(arg)
    /\ pc' = "time_done"
    /\ UNCHANGED <<arg, mainVars>>

SpecTime == InitTime /\ [][ParseSrtTime]_vars

(***************************************************************************)
(* Specification of parse_srt_file applied to one file                     *)
(***************************************************************************)

InitParse ==
    /\ pc = "parse"
    /\ arg \in {[enc |-> "utf8", text |-> c] : c \in SrtContents}
                \cup {[enc |-> e, text |-> TimeRangeLine] : e \in Encodings}
    /\ result = Return(<<>>)
    /\ MainIdle

ParseSrtFile ==
    /\ pc = "parse"
    /\ result' = parse_srt_file(arg)
    /\ pc' = "parse_done"
    /\ UNCHANGED <<arg, mainVars>>

SpecParse == InitParse /\ [][ParseSrtFile]_vars

(***************************************************************************)
(* Specification of merge_ass_srt applied to one pair of files             *)
(*                                                                         *)
(* Primary documents of at most MaxAssLines lines, each an empty line, a   *)
(* [V4+ Styles] header, an [Events] header, an [Events] header followed by *)
(* a space, another section header or a dialogue line.                     *)
(***************************************************************************)

MaxAssLines == 4

AssLineKinds ==
    {<<>>, StylesHeader, EventsHeader, EventsHeader \o <<" ">>,
     <<"[", "Fonts]">>,
     <<"Dialogue: 0,0:00:01.00,0:00:04.00,R2L,,0,0,0,,hi">>}

AssContents ==
    {Join(ls, <<"\n">>) :
        ls \in SeqsUpTo(AssLineKinds, MaxAssLines) \ {<<>>}}

TypicalAssContent ==
    Join(<<StylesHeader, EventsHeader,
           <<"Dialogue: 0,0:00:01.00,0:00:04.00,R2L,,0,0,0,,hi">>>>, <<"\n">>)

OneEntryContent ==
    Join(<< <<"1">>, TimeRangeLine, <<"{", "Hello", "}">> >>, <<"\n">>)

TwoEntryContent ==
    Join(<< <<"1">>, TimeRangeLine, <<"{", "Hello", "}">>, <<>>,
            <<"2">>, TimeRangeLine, <<"Hello">>, <<"World">> >>, <<"\n">>)

MergeSrtFiles ==
    {File("utf8", OneEntryContent), File("utf8", TwoEntryContent),
     File("utf8", <<>>), File("gbk", OneEntryContent),
     File("binary", <<>>), File("unreadable", <<>>)}

MergeArgs ==
    {[ass |-> File("utf8", c), srt |-> File("utf8", t), writable |-> TRUE] :
        c \in AssContents, t \in {OneEntryContent, TwoEntryContent}}
    \cup
    {[ass |-> File(e, TypicalAssContent), srt |-> f, writable |-> w] :
        e \in Encodings, f \in MergeSrtFiles, w \in BOOLEAN}

InitMerge ==
    /\ pc = "call"
    /\ arg \in MergeArgs
    /\ result = MergeOutcome("none", FALSE, FALSE, <<>>)
    /\ MainIdle

MergeAssSrt ==
    /\ pc = "call"
    /\ result' = merge_ass_srt(arg.ass, arg.srt, arg.writable)
    /\ pc' = "returned"
    /\ UNCHANGED <<arg, mainVars>>

SpecMerge == InitMerge /\ [][MergeAssSrt]_vars

(***************************************************************************)
(* Specification of generate_output_filename applied to one pair of names  *)
(*                                                                         *)
(* A primary d/<base>.danmaku.ass with a base of at most MaxBaseLen        *)
(* letters (s, z), a companion d/<stem>.srt with a stem of at most         *)
(* MaxStemLen letters and dots.                                            *)
(***************************************************************************)

MaxBaseLen == 2

MaxStemLen == 4

NameLetters == {"s", "z"}

Bases == SeqsUpTo(NameLetters, MaxBaseLen) \ {<<>>}

Stems == SeqsUpTo(NameLetters \cup {"."}, MaxStemLen) \ {<<>>}

InDir(name) == <<"d", "/">> \o name

InitName ==
    /\ pc = "name"
    /\ arg \in {[srt_file_path |-> InDir(stem \o DotSrt),
                 ass_file_path |-> InDir(base \o DanmakuAss)] :
                    stem \in Stems, base \in Bases}
    /\ result = <<>>
    /\ MainIdle

GenerateOutputFilename ==
    /\ pc = "name"
    /\ result' = generate_output_filename(arg.srt_file_path, arg.ass_file_path)
    /\ pc' = "name_done"
    /\ UNCHANGED <<arg, mainVars>>

SpecName == InitName /\ [][GenerateOutputFilename]_vars

(***************************************************************************)
(* Specification of main() over a directory tree                           *)
(*                                                                         *)
(* The tree holds at most MaxFiles files, each at a path of its own; the    *)
(* script runs on it at most MaxRuns times.                                *)
(***************************************************************************)

MaxFiles == 3

NoEventsAssContent ==
    Join(<<StylesHeader,
           <<"Dialogue: 0,0:00:01.00,0:00:04.00,R2L,,0,0,0,,hi">>>>, <<"\n">>)

PaddedEventsAssContent ==
    Join(<<StylesHeader, EventsHeader \o <<" ">>,
           <<"Dialogue: 0,0:00:01.00,0:00:04.00,R2L,,0,0,0,,hi">>>>, <<"\n">>)

RunAssFiles ==
    {File("utf8", TypicalAssContent), File("utf8", NoEventsAssContent),
     File("utf8", PaddedEventsAssContent), File("utf8", <<>>),
     File("binary", <<>>), File("unreadable", <<>>)}

RunSrtFiles ==
    {File("utf8", OneEntryContent), File("utf8", <<>>),
     File("binary", <<>>), File("unreadable", <<>>)}

\* The paths of the tree: two primaries, companions of theirs (two of them
\* differ by a repeated .srt only) and a subtitle file without a tag.
RunPaths ==
    {InDir(<<"s">> \o DanmakuAss), InDir(<<"z">> \o DanmakuAss),
     InDir(<<"s", ".", "a">> \o DotSrt),
     InDir(<<"s", ".", "a">> \o DotSrt \o DotSrt),
     InDir(<<"z", ".", "a">> \o DotSrt),
     InDir(<<"s">> \o DotSrt)}

\* The contents a path of the tree can have.
RunFilesAt(path) ==
    IF EndsWith(path, DanmakuAss) THEN RunAssFiles
    ELSE IF Len(Basename(path)) > 3 THEN RunSrtFiles
    ELSE {File("utf8", OneEntryContent)}

\* The trees of at most n files.
DisksWithin(n) ==
    UNION {{tree \in [paths -> RunAssFiles \cup RunSrtFiles] :
                \A path \in paths : tree[path] \in RunFilesAt(path)} :
           paths \in {ps \in SUBSET RunPaths : Cardinality(ps) <= n}}

\* The output paths that cannot be opened for writing: none, or the first
\* primary's.
RunReadonly == {{}, {InDir(<<"s", ".", "a">> \o MergedAss)}}

Init ==
    /\ pc = "scan"
    /\ disk \in DisksWithin(MaxFiles)
    /\ readonly \in RunReadonly
    /\ arg = [ass |-> NoFile, srt |-> NoFile, output_path |-> <<>>,
              writable |-> FALSE]
    /\ result = MergeOutcome("none", FALSE, FALSE, <<>>)
    /\ ass_files = <<>> /\ ass_file = <<>> /\ srt_files = <<>>
    /\ total_merged = 0 /\ total_skipped = 0
    /\ outputs = <<>> /\ runs = 1 /\ previous = NoRun

Spec == Init /\ [][Next]_vars

(***************************************************************************)
(* Properties of parse_srt_time (checked under SpecTime)                   *)
(***************************************************************************)

\* The reverse of the notation change: the dot back to a comma, the hour
\* padded to two digits again.
ReverseAssTime(t) ==
    LET parts == Split(t, <<":">>)
    IN  ZeroPad(parts[1], 2) \o <<":">> \o parts[2] \o <<":">>
            \o Replace(parts[3], <<".">>, <<",">>)

\* The fields of a comma-decimal timestamp text.
TimeFields(t) ==
    LET parts == Split(t, <<":">>)
        sec   == Split(parts[3], <<",">>)
    IN  [h |-> IntOf(parts[1]), m |-> IntOf(parts[2]),
         s |-> IntOf(sec[1]), frac |-> IntOf(sec[2])]

\* C9: converting a valid timestamp and reversing the transformation gives
\* the hours, minutes and whole seconds of the original, and its
\* centiseconds (the milliseconds cut or rounded to hundredths).
C9_RoundTripAtCentisecond ==
    pc = "time_done" =>
        LET o == TimeFields(arg)
            r == TimeFields(ReverseAssTime(result))
        IN  /\ r.h = o.h
            /\ r.m = o.m
            /\ r.s = o.s
            /\ r.frac \in {o.frac \div 10, (o.frac + 5) \div 10}

\* C12: the converted timestamp is H:MM:SS.cc: the hours without padding,
\* two minute digits, two integer digits of seconds, a point and two
\* decimals, and the seconds are below 60.
C12_WellFormedTargetTime ==
    pc = "time_done" =>
        LET parts == Split(result, <<":">>)
        IN  /\ Len(parts) = 3
            /\ parts[1] = StrOf(TimeFields(arg).h)
            /\ Len(parts[2]) = 2
            /\ \A i \in 1..2 : IsDigit(parts[2][i])
            /\ Len(parts[3]) = 5
            /\ \A i \in {1, 2, 4, 5} : IsDigit(parts[3][i])
            /\ parts[3][3] = "."
            /\ IntOf(SubSeq(parts[3], 1, 2)) < 60

(***************************************************************************)
(* Properties of parse_srt_file (checked under SpecParse)                  *)
(***************************************************************************)

\* The blocks of a content as a reader of the format sees them: the maximal
\* runs of non-empty lines, named by the index of their first line.
SrtLines(content) == Split(content, <<"\n">>)

BlockStarts(ls) ==
    {i \in 1..Len(ls) : ls[i] # <<>> /\ (i = 1 \/ ls[i - 1] = <<>>)}

BlockEnd(ls, i) ==
    CHOOSE j \in i..Len(ls) :
        /\ \A k \in i..j : ls[k] # <<>>
        /\ j = Len(ls) \/ ls[j + 1] = <<>>

BlockAt(ls, i) == SubSeq(ls, i, BlockEnd(ls, i))

\* The start of the n-th block in file order.
NthBlockStart(ls, n) ==
    CHOOSE i \in BlockStarts(ls) :
        Cardinality({j \in BlockStarts(ls) : j < i}) = n - 1

\* An index line, a time-range line and at least one line of text.
BlockWellFormed(b) == Len(b) >= 3 /\ b[2] = TimeRangeLine

Decodable(file) == file.enc \in {"utf8", "gbk"}

WithoutBlock(ls, i) ==
    Join(SubSeq(ls, 1, i - 1) \o SubSeq(ls, BlockEnd(ls, i) + 1, Len(ls)),
         <<"\n">>)

\* C8: a block with fewer than 3 lines, or whose second line is no valid
\* time-range line, raises nothing and leaves the result what the parse of
\* the content without that block is.
C8_BadBlockDropped ==
    LET ls == SrtLines(arg.text)
    IN  (pc = "parse_done" /\ Decodable(arg))
        => /\ result.exc = "none"
           /\ \A i \in BlockStarts(ls) :
                ~BlockWellFormed(BlockAt(ls, i))
                    => result.val = ParseSrtContent(WithoutBlock(ls, i))

\* A block with a malformed time-range line beside a block that gives an
\* entry.
C8_Witness ==
    LET ls == SrtLines(arg.text)
    IN  /\ pc = "parse_done"
        /\ arg.enc = "utf8"
        /\ \E i \in BlockStarts(ls) :
              /\ Len(BlockAt(ls, i)) >= 3
              /\ BlockAt(ls, i)[2] = MalformedTimeLine
        /\ Len(result.val) = 1

(***************************************************************************)
(* Properties of merge_ass_srt (checked under SpecMerge)                   *)
(***************************************************************************)

\* The line sequences of the primary document read and of the output written.
InLines == Split(arg.ass.text, <<"\n">>)

OutLines == Split(result.output, <<"\n">>)

\* The entries of the companion and the dialogue lines made from them.
Entries == parse_srt_file(arg.srt).val

Synthesized == DialogueLines(Entries)

IsSynthDialogue(l) == \E k \in 1..Len(Synthesized) : Synthesized[k] = l

IsSynthStyle(l) == l = subtitle_style

\* A line the scan takes for the [Events] header, a [V4+ Styles] header, a
\* bracketed header line.
IsEventsHeader(l) == Strip(l) = EventsHeader

IsStylesHeader(l) == Strip(l) = StylesHeader

IsHeader(l) == StartsWith(Strip(l), <<"[">>)

EventsHeaders == {i \in 1..Len(InLines) : IsEventsHeader(InLines[i])}

FirstEventsHeader == CHOOSE i \in EventsHeaders : \A j \in EventsHeaders : i <= j

\* The bracketed header lines after the first [Events] header.
LaterHeaders ==
    {j \in (FirstEventsHeader + 1)..Len(InLines) : IsHeader(InLines[j])}

FirstLaterHeader == CHOOSE j \in LaterHeaders : \A k \in LaterHeaders : j <= k

\* C1: a written output of a document with an [Events] header holds exactly
\* N synthesized dialogue lines, N the number of entries.
C1_DialogueBlockInsertedOnce ==
    (pc = "returned" /\ result.written /\ EventsHeaders # {})
        => Cardinality({k \in 1..Len(OutLines) : IsSynthDialogue(OutLines[k])})
             = Len(Entries)

\* C2: a written output, with the synthesized style and dialogue lines
\* deleted, is the input line sequence.
C2_OriginalLinesPreserved ==
    (pc = "returned" /\ result.written)
        => SelectSeq(OutLines,
                     LAMBDA l : ~IsSynthStyle(l) /\ ~IsSynthDialogue(l))
             = InLines

\* A written output with a style line and dialogue lines put between the
\* lines of a document of at least 3 lines.
C2_Witness ==
    /\ pc = "returned" /\ result.written
    /\ Len(InLines) >= 3
    /\ \E k \in 1..Len(OutLines) : IsSynthStyle(OutLines[k])
    /\ \E k \in 1..(Len(OutLines) - 1) :
          IsSynthDialogue(OutLines[k]) /\ ~IsSynthDialogue(OutLines[k + 1])

\* C3: when a header line follows the [Events] header, the output (style
\* lines aside) is the input up to that header, then the synthesized
\* dialogue lines in entry order, then that header; and the output does not
\* end with the synthesized block.
C3_DialogueBeforeNextHeader ==
    (/\ pc = "returned" /\ result.written
     /\ EventsHeaders # {} /\ LaterHeaders # {})
    => LET j   == FirstLaterHeader
           n   == Len(Synthesized)
           out == SelectSeq(OutLines, LAMBDA l : ~IsSynthStyle(l))
           all == Len(OutLines)
       IN  /\ Len(out) >= j + n
           /\ SubSeq(out, 1, j - 1) = SubSeq(InLines, 1, j - 1)
           /\ SubSeq(out, j, j + n - 1) = Synthesized
           /\ out[j + n] = InLines[j]
           /\ SubSeq(OutLines, all - n + 1, all) # Synthesized

\* C4: [V4+ Styles], then the [Events] header, then no further header: the
\* output is the input with the style line put right before the [Events]
\* header and the synthesized dialogue lines, in entry order, put last.
C4_DialogueAppendedAtEnd ==
    (/\ pc = "returned" /\ arg.writable
     /\ Decodable(arg.ass) /\ Decodable(arg.srt) /\ Len(Entries) > 0
     /\ Cardinality(EventsHeaders) = 1
     /\ \E s \in 1..(FirstEventsHeader - 1) : IsStylesHeader(InLines[s])
     /\ LaterHeaders = {})
    => /\ result.written
       /\ OutLines = SubSeq(InLines, 1, FirstEventsHeader - 1)
                        \o <<subtitle_style>>
                        \o SubSeq(InLines, FirstEventsHeader, Len(InLines))
                        \o Synthesized

\* The places of the synthesized style line in the output.
StyleLinesOut == {k \in 1..Len(OutLines) : IsSynthStyle(OutLines[k])}

\* A [V4+ Styles] header stands before an [Events] header.
StylesBeforeEvents ==
    \E e \in EventsHeaders :
        \E s \in 1..(e - 1) : IsStylesHeader(InLines[s])

\* C13: a written output holds the synthesized style line once, right before
\* an [Events] header, when a [V4+ Styles] header precedes an [Events]
\* header, and does not hold it otherwise.
C13_StyleLineInjectedOnce ==
    (pc = "returned" /\ result.written)
        => IF StylesBeforeEvents
           THEN /\ Cardinality(StyleLinesOut) = 1
                /\ \A k \in StyleLinesOut :
                      k < Len(OutLines) /\ IsEventsHeader(OutLines[k + 1])
           ELSE StyleLinesOut = {}

(***************************************************************************)
(* Properties of main() (checked under Spec)                               *)
(***************************************************************************)

HasEventsHeader(file) ==
    \E i \in 1..Len(Split(file.text, <<"\n">>)) :
        Strip(Split(file.text, <<"\n">>)[i]) = EventsHeader

HasEntries(file) == Decodable(file) /\ parse_srt_file(file).val # <<>>

\* C5: merging into a readable, non-empty primary without an [Events]
\* header writes no output, does not return True, and the pairing is counted
\* as skipped and not as merged.
C5_NoEventsSectionSkipped ==
    [][(/\ pc = "merge"
        /\ Decodable(disk[ass_file]) /\ disk[ass_file].text # <<>>
        /\ ~HasEventsHeader(disk[ass_file])
        /\ HasEntries(disk[Head(srt_files)]))
       => /\ ~result'.written
          /\ ~result'.val
          /\ total_skipped' = total_skipped + 1
          /\ total_merged' = total_merged]_vars

\* C6: every pairing is counted and leaves the loop running (on to the next
\* pairing, the next primary or the tally), and a pairing whose output was
\* not written is counted as skipped.
C6_FailureNeverAborts ==
    [][pc = "merge"
       => /\ pc' \in {"merge", "loop"}
          /\ total_merged' + total_skipped' = total_merged + total_skipped + 1
          /\ ~result'.written => total_skipped' = total_skipped + 1]_vars

\* The primaries of the tree, the companions of one, and the number of
\* primary/companion pairings.
Primaries == scan_directory(disk)

Companions(ass_file_path) == find_matching_srt_files(disk, ass_file_path)

Pairings ==
    Cardinality({pair \in Primaries \X (1..Cardinality(DOMAIN disk)) :
                    pair[2] <= Len(Companions(pair[1]))})

Range(seq) == {seq[i] : i \in 1..Len(seq)}

\* C11: a completed run ends with merged + skipped = the primaries without
\* companion + the pairings and with merged = the outputs written (0 and 0
\* on a tree without primary); on the way a primary without companion adds 1
\* to skipped only, and a pairing adds 1 to merged when its output was
\* written and 1 to skipped otherwise.
C11_TallyCountsEveryPairing ==
    /\ [](pc = "done" =>
            /\ total_merged + total_skipped
                 = Cardinality({a \in Primaries : Companions(a) = <<>>})
                     + Pairings
            /\ total_merged = Len(outputs)
            /\ Primaries = {} => total_merged = 0 /\ total_skipped = 0)
    /\ [][/\ (pc = "loop" /\ pc' = "loop")
               => /\ total_skipped' = total_skipped + 1
                  /\ total_merged' = total_merged
          /\ (pc = "merge" /\ pc' # "crashed")
               => IF result'.written
                  THEN /\ total_merged' = total_merged + 1
                       /\ total_skipped' = total_skipped
                  ELSE /\ total_merged' = total_merged
                       /\ total_skipped' = total_skipped + 1]_vars

\* A completed first run that merged a pairing and skipped a primary without
\* companion.
C11_Witness ==
    /\ pc = "done" /\ runs = 1
    /\ total_merged >= 1
    /\ \E a \in Primaries : Companions(a) = <<>>

\* C14: a pairing whose primary (opened) does not decode or is empty, or
\* whose companion (opened) does not decode or holds no valid entry, is
\* counted as skipped, and the tree is left as it was.
C14_UnusableInputSkipped ==
    [][(/\ pc = "merge"
        /\ disk[ass_file].enc # "unreadable"
        /\ \/ ~Decodable(disk[ass_file])
           \/ disk[ass_file].text = <<>>
           \/ /\ disk[Head(srt_files)].enc # "unreadable"
              /\ ~HasEntries(disk[Head(srt_files)]))
       => /\ ~result'.written
          /\ ~result'.val
          /\ disk' = disk
          /\ total_skipped' = total_skipped + 1
          /\ total_merged' = total_merged]_vars

\* The last pairing had a usable primary and a companion that does not
\* decode, and was skipped without a write.
C14_Witness ==
    /\ pc \in {"loop", "merge"}
    /\ Decodable(arg.ass) /\ arg.ass.text # <<>>
    /\ arg.srt.enc = "binary"
    /\ arg.writable
    /\ ~result.written
    /\ total_skipped >= 1

\* C15: the companions of one primary get output paths that differ from one
\* another, and no path is written twice in one run.
C15_OutputNamesDiffer ==
    /\ ass_file # <<>>
         => \A i, j \in 1..Len(Companions(ass_file)) :
               i # j => generate_output_filename(Companions(ass_file)[i], ass_file)
                          # generate_output_filename(Companions(ass_file)[j], ass_file)
    /\ \A i, j \in 1..Len(outputs) : i # j => outputs[i] # outputs[j]

\* C16: every path written ends in .merged.ass and every file of the tree
\* that is a primary or a companion stays as it is; no path written by this
\* run or the run before is listed as a primary or as a companion; and a
\* completed run after a completed run has the same tally and has written
\* the same paths with the same contents.
C16_RunsWriteOnlyOutputs ==
    /\ [][/\ DOMAIN disk \subseteq DOMAIN disk'
          /\ \A path \in DOMAIN disk' :
                (path \notin DOMAIN disk \/ disk'[path] # disk[path])
                    => /\ EndsWith(path, MergedAss)
                       /\ ~EndsWith(path, DanmakuAss)
                       /\ ~EndsWith(path, DotSrt)]_vars
    /\ [](\A path \in Range(ass_files) \cup Range(srt_files) \cup {ass_file} :
            path \notin Range(outputs) \cup Range(previous.outputs))
    /\ []((pc = "done" /\ previous.pc = "done")
            => /\ total_merged = previous.total_merged
               /\ total_skipped = previous.total_skipped
               /\ Range(outputs) = Range(previous.outputs)
               /\ \A path \in Range(outputs) :
                     disk[path] = previous.disk[path])

\* A second run completed after a first that wrote an output.
C16_Witness ==
    /\ pc = "done" /\ runs = 2
    /\ previous.pc = "done"
    /\ previous.outputs # <<>>
    /\ outputs # <<>>

(***************************************************************************)
(* Properties of generate_output_filename (checked under SpecName)         *)
(***************************************************************************)

NameBase == Replace(Basename(arg.ass_file_path), DanmakuAss, <<>>)

NameStem ==
    SubSeq(Basename(arg.srt_file_path), 1,
           Len(Basename(arg.srt_file_path)) - Len(DotSrt))

\* C10: for a companion <base>.<tag>.srt (a tag that does not itself
\* contain the base) the result is, in the primary's directory,
\* <base>.<tag>.merged.ass; for the companion <base>.srt and for a companion
\* whose name does not contain the base it is <base>.merged.ass.
C10_OutputName ==
    pc = "name_done" =>
        /\ \A tag \in Stems :
              (NameStem = NameBase \o <<".">> \o tag /\ ~Contains(tag, NameBase))
                  => result = InDir(NameBase \o <<".">> \o tag \o MergedAss)
        /\ NameStem = NameBase => result = InDir(NameBase \o MergedAss)
        /\ ~Contains(NameStem, NameBase)
              => result = InDir(NameBase \o MergedAss)

====
